---- MODULE Spec2Model ----
(***************************************************************************)
(* Propositional formula -> CNF -> DIMACS converter (cnf.py).              *)
(*                                                                         *)
(* The AST lives in a heap of node objects addressed by reference, so that *)
(* aliasing (shared subtrees) and the in-place assignments of the          *)
(* distribution pass are part of the model.  Reference 0 is "no object".   *)
(***************************************************************************)
EXTENDS Integers, Sequences, FiniteSets, TLC

(* ---------------------------------------------------------------------- *)
(* Bounds of the model                                                     *)
(* ---------------------------------------------------------------------- *)
\* longest raw token sequence handed to parse()
MaxLen == 3
\* most connectives in a generated formula handed to parse()
MaxOps == 2
\* most connectives in a '~', '^', 'v' formula handed to distribute_or_over_and
\* directly
MaxDistOps == 3
\* most generate() calls made for one CNF tree, over all generator instances
MaxCalls == 2

(* ---------------------------------------------------------------------- *)
(* Strings: the characters (code points) of every token of the model       *)
(* ---------------------------------------------------------------------- *)
None == ""

Chars(s) ==
  CASE s = "(" -> <<40>>
    [] s = ")" -> <<41>>
    [] s = "^" -> <<94>>
    [] s = "~" -> <<126>>
    [] s = "v" -> <<118>>
    [] s = "->" -> <<45, 62>>
    [] s = "<->" -> <<60, 45, 62>>
    [] s = "B" -> <<66>>
    [] s = "a" -> <<97>>
    [] s = "A1" -> <<65, 49>>

\* one character of the class [a-zA-Z0-9]
AlnumChar(c) == (c >= 48 /\ c <= 57) \/ (c >= 65 /\ c <= 90) \/ (c >= 97 /\ c <= 122)

\* re.match(r'^[a-zA-Z0-9]+$', token)
IsAlnum(token) ==
  /\ Len(Chars(token)) > 0
  /\ \A i \in 1..Len(Chars(token)) : AlnumChar(Chars(token)[i])

\* Python's str.__lt__: code point by code point, a proper prefix is smaller
RECURSIVE SeqLess(_, _)
SeqLess(s, t) ==
  IF t = <<>> THEN FALSE
  ELSE IF s = <<>> THEN TRUE
  ELSE IF Head(s) # Head(t) THEN Head(s) < Head(t)
  ELSE SeqLess(Tail(s), Tail(t))

StrLess(a, b) == SeqLess(Chars(a), Chars(b))

\* sorted(list(var_set))
RECURSIVE sorted(_)
sorted(S) ==
  IF S = {} THEN <<>>
  ELSE LET m == CHOOSE x \in S : \A y \in S \ {x} : StrLess(x, y)
       IN <<m>> \o sorted(S \ {m})

(* ---------------------------------------------------------------------- *)
(* AST node objects                                                        *)
(* ---------------------------------------------------------------------- *)
Variable(name) ==
  [kind |-> "Variable", name |-> name, operand |-> 0, left |-> 0, right |-> 0, operator |-> ""]

UnaryOp(operand) ==
  [kind |-> "UnaryOp", name |-> "", operand |-> operand, left |-> 0, right |-> 0, operator |-> ""]

BinaryOp(left, right, operator) ==
  [kind |-> "BinaryOp", name |-> "", operand |-> 0, left |-> left, right |-> right,
   operator |-> operator]

\* object construction: the new object gets the next free reference
New(h, obj) == [heap |-> Append(h, obj), node |-> Len(h) + 1]

(* ---------------------------------------------------------------------- *)
(* LogicParser                                                             *)
(* ---------------------------------------------------------------------- *)
NoError == <<>>

\* a parser step that returned normally (node: the value returned)
Return(st, node) ==
  [ok |-> TRUE, node |-> node, heap |-> st.heap, pos |-> st.pos,
   consumed |-> st.consumed, err |-> NoError]

\* a parser step that raised ValueError
Raise(st, e) ==
  [ok |-> FALSE, node |-> 0, heap |-> st.heap, pos |-> st.pos,
   consumed |-> st.consumed, err |-> e]

_peek(toks, st) == IF st.pos < Len(toks) THEN toks[st.pos + 1] ELSE None

_consume(toks, st, expected) ==
  LET token == _peek(toks, st)
  IN IF expected # None /\ token # expected
     THEN Raise(st, <<"Expected", expected, token>>)
     ELSE [Return(st, 0) EXCEPT !.pos = st.pos + 1,
                                !.consumed = Append(st.consumed, st.pos)]

\* node = BinaryOp(node, right, op) inside the four operator loops
MkBinary(left, rightRes, op) ==
  LET n == New(rightRes.heap, BinaryOp(left, rightRes.node, op))
  IN [rightRes EXCEPT !.heap = n.heap, !.node = n.node]

\* The four binary-operator methods share one shape and differ in the operator
\* they loop on and the method they call for an operand:
\*   level 1 _parse_iff      '<->'  operands by _parse_implies
\*   level 2 _parse_implies  '->'   operands by _parse_or
\*   level 3 _parse_or       'v'    operands by _parse_and
\*   level 4 _parse_and      '^'    operands by _parse_not
IffLevel == 1
NotLevel == 5

\* 'v' and '^' at each other's level
OperatorOf_swapped(level) ==
  CASE level = 1 -> "<->"
    [] level = 2 -> "->"
    [] level = 3 -> "^"
    [] level = 4 -> "v"

OperatorOf(level) ==
  CASE level = 1 -> "<->"
    [] level = 2 -> "->"
    [] level = 3 -> "v"
    [] level = 4 -> "^"

RECURSIVE parse_binary(_, _, _), binary_loop(_, _, _), _parse_not(_, _), _parse_atom(_, _)

_parse_iff(toks, st) == parse_binary(toks, st, IffLevel)

_parse_atom(toks, st) ==
  LET token == _peek(toks, st)
  IN IF token = "("
     THEN LET c == _consume(toks, st, None)
              inner == _parse_iff(toks, c)
          IN IF ~inner.ok THEN inner
             ELSE LET close == _consume(toks, inner, ")")
                  IN IF ~close.ok THEN close
                     ELSE [close EXCEPT !.node = inner.node]
     ELSE IF token # None /\ IsAlnum(token)
     THEN LET c == _consume(toks, st, None)
              n == New(c.heap, Variable(token))
          IN [c EXCEPT !.heap = n.heap, !.node = n.node]
     ELSE Raise(st, <<"Unexpected token", token>>)

_parse_not(toks, st) ==
  IF _peek(toks, st) = "~"
  THEN LET c == _consume(toks, st, None)
           r == _parse_not(toks, c)
       IN IF ~r.ok THEN r
          ELSE LET n == New(r.heap, UnaryOp(r.node))
               IN [r EXCEPT !.heap = n.heap, !.node = n.node]
  ELSE _parse_atom(toks, st)

\* while self._peek() == <operator>: op = self._consume(); right = <operand>();
\*                                   node = BinaryOp(node, right, op)
\* (cur: the parser state together with the current node)
binary_loop(toks, cur, level) ==
  IF _peek(toks, cur) = OperatorOf(level)
  THEN LET c == _consume(toks, cur, None)
           right == parse_binary(toks, c, level + 1)
       IN IF ~right.ok THEN right
          ELSE binary_loop(toks, MkBinary(cur.node, right, OperatorOf(level)), level)
  ELSE cur

\* node = <operand>(); while ...; return node
parse_binary(toks, st, level) ==
  IF level = NotLevel THEN _parse_not(toks, st)
  ELSE LET first == parse_binary(toks, st, level + 1)
       IN IF ~first.ok THEN first ELSE binary_loop(toks, first, level)

\* parse() without the check for tokens left over
parse_prefix(toks) ==
  LET st0 == [heap |-> <<>>, pos |-> 0, consumed |-> <<>>]
  IN IF toks = <<>>
     THEN Raise(st0, <<"Empty formula">>)
     ELSE _parse_iff(toks, st0)

\* LogicParser.parse on an already tokenised text
parse(toks) ==
  LET st0 == [heap |-> <<>>, pos |-> 0, consumed |-> <<>>]
  IN IF toks = <<>>
     THEN Raise(st0, <<"Empty formula">>)
     ELSE LET r == _parse_iff(toks, st0)
          IN IF ~r.ok THEN r
             ELSE IF r.pos < Len(toks)
             THEN Raise(r, <<"Unexpected token", toks[r.pos + 1]>>)
             ELSE r

(* ---------------------------------------------------------------------- *)
(* Rewrite stages                                                          *)
(* ---------------------------------------------------------------------- *)
\* BinaryOp(UnaryOp(a), b, 'v')
ImpliesAsOr_unnegated(h, a, b) == New(h, BinaryOp(a, b, "v"))

ImpliesAsOr(h, a, b) ==
  LET u == New(h, UnaryOp(a))
  IN New(u.heap, BinaryOp(u.node, b, "v"))

RECURSIVE eliminate_implications(_, _)
eliminate_implications(h, node) ==
  IF h[node].kind = "BinaryOp"
  THEN LET l == eliminate_implications(h, h[node].left)
           r == eliminate_implications(l.heap, h[node].right)
           left_st == l.node
           right_st == r.node
       IN IF h[node].operator = "->"
          THEN ImpliesAsOr(r.heap, left_st, right_st)
          ELSE IF h[node].operator = "<->"
          THEN LET b1 == ImpliesAsOr(r.heap, left_st, right_st)
                   b2 == ImpliesAsOr(b1.heap, right_st, left_st)
               IN New(b2.heap, BinaryOp(b1.node, b2.node, "^"))
          ELSE New(r.heap, BinaryOp(left_st, right_st, h[node].operator))
  ELSE IF h[node].kind = "UnaryOp"
  THEN LET o == eliminate_implications(h, h[node].operand)
       IN New(o.heap, UnaryOp(o.node))
  ELSE [heap |-> h, node |-> node]

RECURSIVE convert_to_nnf(_, _)
convert_to_nnf(h, node) ==
  LET n == h[node]
      inner == h[n.operand]
      \* BinaryOp(convert_to_nnf(UnaryOp(inner.left)), convert_to_nnf(UnaryOp(inner.right)), op)
      DeMorgan(op) ==
        LET u1 == New(h, UnaryOp(inner.left))
            c1 == convert_to_nnf(u1.heap, u1.node)
            u2 == New(c1.heap, UnaryOp(inner.right))
            c2 == convert_to_nnf(u2.heap, u2.node)
        IN New(c2.heap, BinaryOp(c1.node, c2.node, op))
  IN IF n.kind = "UnaryOp" /\ inner.kind = "UnaryOp"
     THEN convert_to_nnf(h, inner.operand)
     ELSE IF n.kind = "UnaryOp" /\ inner.kind = "BinaryOp" /\ inner.operator = "v"
     THEN DeMorgan("^")
     ELSE IF n.kind = "UnaryOp" /\ inner.kind = "BinaryOp" /\ inner.operator = "^"
     THEN DeMorgan("v")
     ELSE IF n.kind = "BinaryOp"
     THEN LET l == convert_to_nnf(h, n.left)
              r == convert_to_nnf(l.heap, n.right)
          IN New(r.heap, BinaryOp(l.node, r.node, n.operator))
     ELSE IF n.kind = "UnaryOp"
     THEN LET o == convert_to_nnf(h, n.operand)
          IN New(o.heap, UnaryOp(o.node))
     ELSE [heap |-> h, node |-> node]

\* isinstance(x, BinaryOp) and x.operator == '^'
IsAnd(h, x) == h[x].kind = "BinaryOp" /\ h[x].operator = "^"

\* the same with the first disjunction built twice
NewAndOfOrs_repeated(h, a, b, c, d) ==
  LET o1 == New(h, BinaryOp(a, b, "v"))
      o2 == New(o1.heap, BinaryOp(a, b, "v"))
  IN New(o2.heap, BinaryOp(o1.node, o2.node, "^"))

\* BinaryOp(BinaryOp(a, b, 'v'), BinaryOp(c, d, 'v'), '^')
NewAndOfOrs(h, a, b, c, d) ==
  LET o1 == New(h, BinaryOp(a, b, "v"))
      o2 == New(o1.heap, BinaryOp(c, d, "v"))
  IN New(o2.heap, BinaryOp(o1.node, o2.node, "^"))

RECURSIVE distribute_or_over_and(_, _)
\* one distribution step per node, the result not distributed again
distribute_once(h, node) ==
  IF h[node].kind = "BinaryOp"
  THEN LET l == distribute_or_over_and(h, h[node].left)
           h1 == [l.heap EXCEPT ![node].left = l.node]
           r == distribute_or_over_and(h1, h1[node].right)
           h2 == [r.heap EXCEPT ![node].right = r.node]
           n == h2[node]
       IN IF n.operator = "v" /\ IsAnd(h2, n.left)
          THEN NewAndOfOrs(h2, h2[n.left].left, n.right, h2[n.left].right, n.right)
          ELSE IF n.operator = "v" /\ IsAnd(h2, n.right)
          THEN NewAndOfOrs(h2, n.left, h2[n.right].left, n.left, h2[n.right].right)
          ELSE [heap |-> h2, node |-> node]
  ELSE [heap |-> h, node |-> node]

distribute_or_over_and(h, node) ==
  IF h[node].kind = "BinaryOp"
  THEN LET l == distribute_or_over_and(h, h[node].left)
           \* node.left = ...
           h1 == [l.heap EXCEPT ![node].left = l.node]
           r == distribute_or_over_and(h1, h1[node].right)
           \* node.right = ...
           h2 == [r.heap EXCEPT ![node].right = r.node]
           n == h2[node]
       IN IF n.operator = "v"
          THEN IF IsAnd(h2, n.left)
               THEN LET a == NewAndOfOrs(h2, h2[n.left].left, n.right,
                                             h2[n.left].right, n.right)
                    IN distribute_or_over_and(a.heap, a.node)
               ELSE IF IsAnd(h2, n.right)
               THEN LET a == NewAndOfOrs(h2, n.left, h2[n.right].left,
                                             n.left, h2[n.right].right)
                    IN distribute_or_over_and(a.heap, a.node)
               ELSE [heap |-> h2, node |-> node]
          ELSE [heap |-> h2, node |-> node]
  ELSE [heap |-> h, node |-> node]

\* get_variables(node, var_set): the names added to var_set
RECURSIVE get_variables(_, _)
get_variables(h, node) ==
  IF h[node].kind = "Variable" THEN {h[node].name}
  ELSE IF h[node].kind = "UnaryOp" THEN get_variables(h, h[node].operand)
  ELSE get_variables(h, h[node].left) \cup get_variables(h, h[node].right)

(* ---------------------------------------------------------------------- *)
(* DIMACSGenerator                                                         *)
(* ---------------------------------------------------------------------- *)
EmptyMap == [x \in {} |-> 0]

\* DIMACSGenerator.__init__
DIMACSGenerator(cnf_root) == [root |-> cnf_root, var_map |-> EmptyMap, clauses |-> <<>>]

RECURSIVE _collect_literals(_, _, _, _)
_collect_literals(h, vm, node, literals) ==
  IF h[node].kind = "BinaryOp" /\ h[node].operator = "v"
  THEN _collect_literals(h, vm, h[node].right,
                         _collect_literals(h, vm, h[node].left, literals))
  ELSE IF h[node].kind = "UnaryOp"
  THEN Append(literals, 0 - vm[h[h[node].operand].name])
  ELSE IF h[node].kind = "Variable"
  THEN Append(literals, vm[h[node].name])
  ELSE literals

RECURSIVE _collect_clauses(_, _, _, _)
_collect_clauses(h, vm, node, clauses) ==
  IF h[node].kind = "BinaryOp" /\ h[node].operator = "^"
  THEN _collect_clauses(h, vm, h[node].right,
                        _collect_clauses(h, vm, h[node].left, clauses))
  ELSE Append(clauses, _collect_literals(h, vm, node, <<>>))

\* for idx, var_name in enumerate(sorted_vars, 1): self.var_map[var_name] = idx
AssignIds(vm, sorted_vars) ==
  [name \in (DOMAIN vm) \cup {sorted_vars[i] : i \in DOMAIN sorted_vars} |->
     IF \E i \in DOMAIN sorted_vars : sorted_vars[i] = name
     THEN CHOOSE i \in DOMAIN sorted_vars : sorted_vars[i] = name
     ELSE vm[name]]

\* The text generate() returns, line by line: the comment line as the list of
\* name=id pairs, the problem line "p cnf <vars> <clauses>" as its two numbers,
\* and every clause line as its numbers, the closing 0 included.
DimacsText(sorted_vars, vm, clauses) ==
  [comment |-> [i \in DOMAIN sorted_vars |-> <<sorted_vars[i], vm[sorted_vars[i]]>>],
   header |-> <<Cardinality(DOMAIN vm), Len(clauses)>>,
   lines |-> [i \in DOMAIN clauses |-> clauses[i] \o <<0>>]]

\* DIMACSGenerator.generate: the instance after the call and the text returned
generate(h, g) ==
  LET sorted_vars == sorted(get_variables(h, g.root))
      vm == AssignIds(g.var_map, sorted_vars)
      cl == _collect_clauses(h, vm, g.root, g.clauses)
  IN [self |-> [root |-> g.root, var_map |-> vm, clauses |-> cl],
      text |-> DimacsText(sorted_vars, vm, cl)]

(* ---------------------------------------------------------------------- *)
(* Inputs: the token lists parse() is run on                               *)
(* ---------------------------------------------------------------------- *)
\* every token the tokenizer can produce over the names of the model
RawNames == {"A1", "B", "a"}
Alphabet == RawNames \cup {"v", "^", "~", "->", "<->", "(", ")"}

RECURSIVE TokenLists(_)
TokenLists(n) ==
  IF n = 0 THEN {<<>>}
  ELSE {Append(s, x) : s \in TokenLists(n - 1), x \in Alphabet}

RawTokenLists == UNION {TokenLists(n) : n \in 0..MaxLen}

\* formulas written with as few parentheses as the grammar allows
FormulaNames == {"B", "a"}
Connectives == {"<->", "->", "v", "^"}

VarF(name) == [f |-> "var", name |-> name]
NotF(x) == [f |-> "not", operand |-> x]
BinF(l, r, op) == [f |-> "bin", left |-> l, right |-> r, operator |-> op]

\* the formulas with exactly k connectives, the binary ones taken from ops
RECURSIVE Formulas(_, _)
Formulas(k, ops) ==
  IF k = 0 THEN {VarF(x) : x \in FormulaNames}
  ELSE {NotF(x) : x \in Formulas(k - 1, ops)}
       \cup UNION {{BinF(l, r, op) : l \in Formulas(i, ops), r \in Formulas(k - 1 - i, ops),
                                     op \in ops} : i \in 0..(k - 1)}

Level(x) ==
  IF x.f = "var" THEN 6
  ELSE IF x.f = "not" THEN 5
  ELSE CASE x.operator = "<->" -> 1
         [] x.operator = "->" -> 2
         [] x.operator = "v" -> 3
         [] x.operator = "^" -> 4

RECURSIVE Written(_, _)
Written(x, min) ==
  LET body == IF x.f = "var" THEN <<x.name>>
              ELSE IF x.f = "not" THEN <<"~">> \o Written(x.operand, 5)
              ELSE Written(x.left, Level(x)) \o <<x.operator>>
                   \o Written(x.right, Level(x) + 1)
  IN IF Level(x) < min THEN <<"(">> \o body \o <<")">> ELSE body

WrittenFormulas ==
  {Written(x, 1) : x \in UNION {Formulas(k, Connectives) : k \in 0..MaxOps}}

\* formulas of Variable, negation, '^' and 'v' only, negations anywhere
WrittenAndOrNot ==
  {Written(x, 1) : x \in UNION {Formulas(k, {"^", "v"}) : k \in 0..MaxDistOps}}

(* ---------------------------------------------------------------------- *)
(* State                                                                   *)
(* ---------------------------------------------------------------------- *)
VARIABLES
  tokens,    \* LogicParser.tokens
  pos,       \* LogicParser.pos
  consumed,  \* the positions _consume() advanced over, in order
  heap,      \* the live AST objects
  error,     \* the ValueError parse() raised, NoError if none
  ast,       \* parser.parse(formula)
  step1,     \* eliminate_implications(ast)
  step2,     \* convert_to_nnf(step1)
  cnf_ast,   \* distribute_or_over_and(step2)
  gen,       \* the current DIMACSGenerator instance
  calls,     \* generate() calls made on the current instance
  results,   \* what every generate() call so far returned, in call order
  stack,     \* the active calls of distribute_or_over_and, innermost last
  pc         \* the line of main() / run_test_suite() reached

vars == <<tokens, pos, consumed, heap, error, ast, step1, step2, cnf_ast, gen, calls,
          results, stack, pc>>

NoGen == DIMACSGenerator(0)

InitWith(inputs) ==
  /\ tokens \in inputs
  /\ pos = 0
  /\ consumed = <<>>
  /\ heap = <<>>
  /\ error = NoError
  /\ ast = 0
  /\ step1 = 0
  /\ step2 = 0
  /\ cnf_ast = 0
  /\ gen = NoGen
  /\ calls = 0
  /\ results = <<>>
  /\ stack = <<>>
  /\ pc = "start"

Init == InitWith(RawTokenLists \cup WrittenFormulas)

\* ast = parser.parse(input_formula), with the except branch of the caller
Parse ==
  /\ pc = "start"
  /\ LET r == parse(tokens)
     IN /\ pos' = r.pos
        /\ consumed' = r.consumed
        /\ error' = r.err
        /\ heap' = IF r.ok THEN r.heap ELSE <<>>
        /\ ast' = r.node
        /\ pc' = IF r.ok THEN "parsed" ELSE "error"
  /\ UNCHANGED <<tokens, step1, step2, cnf_ast, gen, calls, results, stack>>

\* step1 = eliminate_implications(ast)
Eliminate ==
  /\ pc = "parsed"
  /\ LET r == eliminate_implications(heap, ast)
     IN heap' = r.heap /\ step1' = r.node
  /\ pc' = "step1"
  /\ UNCHANGED <<tokens, pos, consumed, error, ast, step2, cnf_ast, gen, calls, results, stack>>

\* step2 = convert_to_nnf(step1)
Nnf ==
  /\ pc = "step1"
  /\ LET r == convert_to_nnf(heap, step1)
     IN heap' = r.heap /\ step2' = r.node
  /\ pc' = "step2"
  /\ UNCHANGED <<tokens, pos, consumed, error, ast, step1, cnf_ast, gen, calls, results, stack>>

\* cnf_ast = distribute_or_over_and(step2)
Distribute ==
  /\ pc = "step2"
  /\ LET r == distribute_or_over_and(heap, step2)
     IN heap' = r.heap /\ cnf_ast' = r.node
  /\ pc' = "cnf"
  /\ UNCHANGED <<tokens, pos, consumed, error, ast, step1, step2, gen, calls, results, stack>>

\* dimacs_gen = DIMACSGenerator(cnf_ast): the first instance, or another one for
\* the same tree once the current one has been used
NewGenerator ==
  /\ pc = "cnf" \/ (pc = "gen" /\ calls > 0 /\ Len(results) < MaxCalls)
  /\ gen' = DIMACSGenerator(cnf_ast)
  /\ calls' = 0
  /\ pc' = "gen"
  /\ UNCHANGED <<tokens, pos, consumed, heap, error, ast, step1, step2, cnf_ast, results, stack>>

\* result = dimacs_gen.generate()
Generate ==
  /\ pc = "gen"
  /\ Len(results) < MaxCalls
  /\ LET r == generate(heap, gen)
     IN /\ gen' = r.self
        /\ results' = Append(results, [var_map |-> r.self.var_map,
                                       clauses |-> r.self.clauses,
                                       text |-> r.text,
                                       call |-> calls + 1])
  /\ calls' = calls + 1
  /\ UNCHANGED <<tokens, pos, consumed, heap, error, ast, step1, step2, cnf_ast, stack, pc>>

Next == Parse \/ Eliminate \/ Nnf \/ Distribute \/ NewGenerator \/ Generate

Spec == Init /\ [][Next]_vars

(* ---------------------------------------------------------------------- *)
(* distribute_or_over_and call by call                                     *)
(*                                                                         *)
(* The same function as a machine with an explicit call stack, run on the  *)
(* tree parse() returned.  A frame is one active call: its argument, where   *)
(* the call stands, and, once it has its result, the value it returns.     *)
(*   "call"    entered, nothing done yet                                   *)
(*   "left"    inside the recursive call of line 168                       *)
(*   "right"   inside the recursive call of line 169                       *)
(*   "examine" both children assigned, at line 171                         *)
(*   "tail"    inside the re-distribution call of line 175 or 180          *)
(*   "done"    about to return value                                       *)
(* ---------------------------------------------------------------------- *)
Frame(node) == [node |-> node, at |-> "call", value |-> 0]

Top == stack[Len(stack)]
Caller == stack[Len(stack) - 1]

SetTop(stk, f) == [stk EXCEPT ![Len(stk)] = f]
Pop(stk) == SubSeq(stk, 1, Len(stk) - 1)

DistFrame == <<tokens, pos, consumed, error, ast, step1, step2, gen, calls, results>>

\* distribute_or_over_and(ast) is called on the parsed tree
DistStart ==
  /\ pc = "parsed"
  /\ stack' = <<Frame(ast)>>
  /\ pc' = "dist"
  /\ UNCHANGED <<heap, cnf_ast>>
  /\ UNCHANGED DistFrame

\* line 167 false: return node
DistLeaf ==
  /\ pc = "dist"
  /\ Top.at = "call"
  /\ heap[Top.node].kind # "BinaryOp"
  /\ stack' = SetTop(stack, [Top EXCEPT !.at = "done", !.value = Top.node])
  /\ UNCHANGED <<heap, cnf_ast, pc>>
  /\ UNCHANGED DistFrame

\* line 168: the call distribute_or_over_and(node.left)
DistCallLeft ==
  /\ pc = "dist"
  /\ Top.at = "call"
  /\ heap[Top.node].kind = "BinaryOp"
  /\ stack' = Append(SetTop(stack, [Top EXCEPT !.at = "left"]), Frame(heap[Top.node].left))
  /\ UNCHANGED <<heap, cnf_ast, pc>>
  /\ UNCHANGED DistFrame

\* line 168: node.left = <result>; line 169: the call on node.right
DistAssignLeft ==
  /\ pc = "dist"
  /\ Len(stack) > 1
  /\ Top.at = "done"
  /\ Caller.at = "left"
  /\ heap' = [heap EXCEPT ![Caller.node].left = Top.value]
  /\ stack' = Append(SetTop(Pop(stack), [Caller EXCEPT !.at = "right"]),
                     Frame(heap[Caller.node].right))
  /\ UNCHANGED <<cnf_ast, pc>>
  /\ UNCHANGED DistFrame

\* line 169: node.right = <result>
DistAssignRight ==
  /\ pc = "dist"
  /\ Len(stack) > 1
  /\ Top.at = "done"
  /\ Caller.at = "right"
  /\ heap' = [heap EXCEPT ![Caller.node].right = Top.value]
  /\ stack' = SetTop(Pop(stack), [Caller EXCEPT !.at = "examine"])
  /\ UNCHANGED <<cnf_ast, pc>>
  /\ UNCHANGED DistFrame

\* lines 173-175 with the new node returned as it is
DistDistributeLeft_once ==
  /\ pc = "dist"
  /\ Top.at = "examine"
  /\ heap[Top.node].operator = "v"
  /\ IsAnd(heap, heap[Top.node].left)
  /\ LET n == heap[Top.node]
         a == NewAndOfOrs(heap, heap[n.left].left, n.right, heap[n.left].right, n.right)
     IN /\ heap' = a.heap
        /\ stack' = SetTop(stack, [Top EXCEPT !.at = "done", !.value = a.node])
  /\ UNCHANGED <<cnf_ast, pc>>
  /\ UNCHANGED DistFrame

\* lines 173-175: (P ^ Q) v R, the call on the new (P v R) ^ (Q v R)
DistDistributeLeft ==
  /\ pc = "dist"
  /\ Top.at = "examine"
  /\ heap[Top.node].operator = "v"
  /\ IsAnd(heap, heap[Top.node].left)
  /\ LET n == heap[Top.node]
         a == NewAndOfOrs(heap, heap[n.left].left, n.right, heap[n.left].right, n.right)
     IN /\ heap' = a.heap
        /\ stack' = Append(SetTop(stack, [Top EXCEPT !.at = "tail"]), Frame(a.node))
  /\ UNCHANGED <<cnf_ast, pc>>
  /\ UNCHANGED DistFrame

\* lines 178-180: P v (Q ^ R), the call on the new (P v Q) ^ (P v R)
DistDistributeRight ==
  /\ pc = "dist"
  /\ Top.at = "examine"
  /\ heap[Top.node].operator = "v"
  /\ ~IsAnd(heap, heap[Top.node].left)
  /\ IsAnd(heap, heap[Top.node].right)
  /\ LET n == heap[Top.node]
         a == NewAndOfOrs(heap, n.left, heap[n.right].left, n.left, heap[n.right].right)
     IN /\ heap' = a.heap
        /\ stack' = Append(SetTop(stack, [Top EXCEPT !.at = "tail"]), Frame(a.node))
  /\ UNCHANGED <<cnf_ast, pc>>
  /\ UNCHANGED DistFrame

\* line 181 after the children were assigned: return node
DistKeep ==
  /\ pc = "dist"
  /\ Top.at = "examine"
  /\ ~(heap[Top.node].operator = "v"
        /\ (IsAnd(heap, heap[Top.node].left) \/ IsAnd(heap, heap[Top.node].right)))
  /\ stack' = SetTop(stack, [Top EXCEPT !.at = "done", !.value = Top.node])
  /\ UNCHANGED <<heap, cnf_ast, pc>>
  /\ UNCHANGED DistFrame

\* lines 175 / 180: return <result of the re-distribution call>
DistTailReturn ==
  /\ pc = "dist"
  /\ Len(stack) > 1
  /\ Top.at = "done"
  /\ Caller.at = "tail"
  /\ stack' = SetTop(Pop(stack), [Caller EXCEPT !.at = "done", !.value = Top.value])
  /\ UNCHANGED <<heap, cnf_ast, pc>>
  /\ UNCHANGED DistFrame

\* the outermost call returns to its caller
DistFinish ==
  /\ pc = "dist"
  /\ Len(stack) = 1
  /\ Top.at = "done"
  /\ cnf_ast' = Top.value
  /\ stack' = <<>>
  /\ pc' = "cnf"
  /\ UNCHANGED heap
  /\ UNCHANGED DistFrame

NextDist ==
  \/ DistStart
  \/ DistLeaf
  \/ DistCallLeft
  \/ DistAssignLeft
  \/ DistAssignRight
  \/ DistDistributeLeft
  \/ DistDistributeRight
  \/ DistKeep
  \/ DistTailReturn
  \/ DistFinish

\* the argument: any tree parse() builds from a '~', '^', 'v' formula
InitDist ==
  \E toks \in WrittenAndOrNot :
    LET p == parse(toks)
    IN /\ tokens = toks
       /\ pos = p.pos
       /\ consumed = p.consumed
       /\ heap = p.heap
       /\ error = p.err
       /\ ast = p.node
       /\ step1 = 0
       /\ step2 = 0
       /\ cnf_ast = 0
       /\ gen = NoGen
       /\ calls = 0
       /\ results = <<>>
       /\ stack = <<>>
       /\ pc = "parsed"

\* the interpreter runs a started call to its end: no step waits on anything
SpecDist == InitDist /\ [][NextDist]_vars /\ WF_vars(NextDist)

(* ---------------------------------------------------------------------- *)
(* Reading the heap                                                        *)
(* ---------------------------------------------------------------------- *)
\* the formula a reference stands for
RECURSIVE TreeOf(_, _)
TreeOf(h, n) ==
  IF h[n].kind = "Variable" THEN VarF(h[n].name)
  ELSE IF h[n].kind = "UnaryOp" THEN NotF(TreeOf(h, h[n].operand))
  ELSE BinF(TreeOf(h, h[n].left), TreeOf(h, h[n].right), h[n].operator)

\* truth value of a formula when exactly the variables of env are true
RECURSIVE Holds(_, _)
Holds(x, env) ==
  IF x.f = "var" THEN x.name \in env
  ELSE IF x.f = "not" THEN ~Holds(x.operand, env)
  ELSE CASE x.operator = "^" -> Holds(x.left, env) /\ Holds(x.right, env)
         [] x.operator = "v" -> Holds(x.left, env) \/ Holds(x.right, env)
         [] x.operator = "->" -> ~Holds(x.left, env) \/ Holds(x.right, env)
         [] x.operator = "<->" -> Holds(x.left, env) = Holds(x.right, env)

RECURSIVE NamesOf(_)
NamesOf(x) ==
  IF x.f = "var" THEN {x.name}
  ELSE IF x.f = "not" THEN NamesOf(x.operand)
  ELSE NamesOf(x.left) \cup NamesOf(x.right)

\* whether operator op occurs in x
RECURSIVE Uses(_, _)
Uses(x, op) ==
  IF x.f = "var" THEN FALSE
  ELSE IF x.f = "not" THEN Uses(x.operand, op)
  ELSE x.operator = op \/ Uses(x.left, op) \/ Uses(x.right, op)

\* every negation is applied to a variable
RECURSIVE NegationsAtLeaves(_)
NegationsAtLeaves(x) ==
  IF x.f = "var" THEN TRUE
  ELSE IF x.f = "not" THEN x.operand.f = "var"
  ELSE NegationsAtLeaves(x.left) /\ NegationsAtLeaves(x.right)

\* no 'v' node has a '^' node anywhere below it
RECURSIVE NoAndBelowOr(_)
NoAndBelowOr(x) ==
  IF x.f = "var" THEN TRUE
  ELSE IF x.f = "not" THEN NoAndBelowOr(x.operand)
  ELSE /\ NoAndBelowOr(x.left)
       /\ NoAndBelowOr(x.right)
       /\ x.operator = "v" => ~Uses(x.left, "^") /\ ~Uses(x.right, "^")

CnfShaped(x) ==
  /\ ~Uses(x, "->")
  /\ ~Uses(x, "<->")
  /\ NegationsAtLeaves(x)
  /\ NoAndBelowOr(x)

\* the maximal non-'^' subtrees of the top-level '^' spine, left to right
RECURSIVE SpineOf(_, _)
SpineOf(x, op) ==
  IF x.f = "bin" /\ x.operator = op
  THEN SpineOf(x.left, op) \o SpineOf(x.right, op)
  ELSE <<x>>

Piped == pc \in {"cnf", "gen"}

(* ---------------------------------------------------------------------- *)
(* Claims                                                                  *)
(* ---------------------------------------------------------------------- *)

\* C1: for every formula that parses and every truth assignment to its
\* variables, the parsed formula and the tree returned by
\* distribute_or_over_and(convert_to_nnf(eliminate_implications(.))) have the
\* same truth value.
C1_EquivalencePreserved ==
  Piped =>
    LET p == parse(tokens)
        F == TreeOf(p.heap, p.node)
        G == TreeOf(heap, cnf_ast)
    IN \A env \in SUBSET (NamesOf(F) \cup NamesOf(G)) : Holds(F, env) = Holds(G, env)

\* a biconditional under a negation went through all three stages and was
\* distributed
C1_Witness ==
  /\ pc = "cnf"
  /\ Uses(TreeOf(heap, ast), "<->")
  /\ TreeOf(heap, ast).f = "not"
  /\ cnf_ast # step2

\* C2: the tree the pipeline returns has no '->' or '<->' node, negations only
\* on variables, and no '^' node anywhere below a 'v' node.
C2_CnfShape == Piped => CnfShaped(TreeOf(heap, cnf_ast))

\* a disjunction of two conjunctions was distributed into four clauses
C2_Witness ==
  /\ pc = "cnf"
  /\ cnf_ast # step2
  /\ IsAnd(heap, heap[step2].left)
  /\ IsAnd(heap, heap[step2].right)
  /\ Len(SpineOf(TreeOf(heap, cnf_ast), "^")) = 4

\* C3: get_variables collects the same names from the pipeline's CNF tree as
\* from the parsed formula.
C3_VariableCoverage ==
  Piped => get_variables(heap, cnf_ast) = get_variables(heap, ast)

\* a formula with two variables had a conjunction distributed
C3_Witness ==
  /\ pc = "cnf"
  /\ cnf_ast # step2
  /\ Cardinality(get_variables(heap, ast)) = 2
  /\ Uses(TreeOf(heap, ast), "^")

\* The grammar of the parser: tokens[i..j] derive formula x at a level, where
\* the levels are, lowest precedence first, '<->', '->', 'v', '^', '~', atom;
\* a binary operator takes its own level on the left (left-associative) and
\* the next level on the right; parentheses restart at the lowest level.
GrammarOperator(level) ==
  CASE level = 1 -> "<->"
    [] level = 2 -> "->"
    [] level = 3 -> "v"
    [] level = 4 -> "^"

RECURSIVE Derives(_, _, _, _)
Derives(x, level, i, j) ==
  IF i > j THEN FALSE
  ELSE IF level <= 4
  THEN \/ Derives(x, level + 1, i, j)
       \/ /\ x.f = "bin"
          /\ x.operator = GrammarOperator(level)
          /\ \E k \in (i + 1)..(j - 1) :
               /\ tokens[k] = x.operator
               /\ Derives(x.left, level, i, k - 1)
               /\ Derives(x.right, level + 1, k + 1, j)
  ELSE IF level = 5
  THEN \/ Derives(x, 6, i, j)
       \/ /\ x.f = "not"
          /\ tokens[i] = "~"
          /\ Derives(x.operand, 5, i + 1, j)
  ELSE \/ i = j /\ x.f = "var" /\ x.name = tokens[i] /\ IsAlnum(tokens[i])
       \/ tokens[i] = "(" /\ tokens[j] = ")" /\ Derives(x, 1, i + 1, j - 1)

\* C4: whenever parse returns an AST, it is the AST the grammar gives the
\* token sequence, with precedence '<->' < '->' < 'v' < '^' < '~', binary
\* operators left-associative and parentheses overriding.
C4_GrammarAst ==
  pc = "parsed" => Derives(TreeOf(heap, ast), 1, 1, Len(tokens))

\* a -> B -> a was parsed as (a -> B) -> a
C4_Witness ==
  /\ pc = "parsed"
  /\ tokens = <<"a", "->", "B", "->", "a">>
  /\ TreeOf(heap, ast) = BinF(BinF(VarF("a"), VarF("B"), "->"), VarF("a"), "->")

BinaryOperatorTokens == {"^", "v", "->", "<->"}

\* a position that can only start an operand: the first one, and the one after
\* '(', '~', '^', '->' or '<->'
AtomExpected(i) == i = 1 \/ tokens[i - 1] \in {"(", "~", "^", "->", "<->"}

\* C5: a binary operator token where an atom is expected makes parse fail and
\* return no AST, with an unexpected-token error when the parser stops at that
\* token; no Variable is ever named by an operator token.
C5_BareOperatorRejected ==
  pc # "start" =>
    /\ \A i \in 1..Len(tokens) :
         (AtomExpected(i) /\ tokens[i] \in BinaryOperatorTokens) =>
           /\ pc = "error"
           /\ ast = 0
           /\ pos = i - 1 => error = <<"Unexpected token", tokens[i]>>
    /\ \A n \in DOMAIN heap :
         heap[n].kind = "Variable" => heap[n].name \notin BinaryOperatorTokens

\* number of tokens equal to t
Count(t) == Cardinality({i \in 1..Len(tokens) : tokens[i] = t})

\* C6: parse returns an AST only when it has consumed every token exactly
\* once; pos never exceeds the number of tokens; an empty token sequence,
\* tokens left after a complete formula and a missing ')' each end in an error
\* and no AST.
C6_AllOrNothing ==
  /\ pos <= Len(tokens)
  /\ consumed = [k \in 1..pos |-> k - 1]
  /\ pc \notin {"start", "error"} =>
       ast # 0 /\ error = NoError /\ pos = Len(tokens)
  /\ pc = "error" => ast = 0 /\ error # NoError
  /\ pc # "start" =>
       /\ tokens = <<>> => pc = "error" /\ error = <<"Empty formula">>
       /\ Count("(") > Count(")") => pc = "error"
       /\ \A n \in 1..(Len(tokens) - 1) :
            (parse(SubSeq(tokens, 1, n)).ok /\ tokens[n + 1] \notin BinaryOperatorTokens)
              => pc = "error" /\ error = <<"Unexpected token", tokens[n + 1]>>

\* a complete formula was followed by more tokens
C6_Witness ==
  /\ pc = "error"
  /\ pos > 0
  /\ pos < Len(tokens)
  /\ parse(SubSeq(tokens, 1, pos)).ok
  /\ error = <<"Unexpected token", tokens[pos + 1]>>

\* what generate() has to produce for the tree of its instance
ExpectedMap(x) ==
  [name \in NamesOf(x) |-> 1 + Cardinality({o \in NamesOf(x) : StrLess(o, name)})]

ExpectedLiteral(x, vm) == IF x.f = "not" THEN 0 - vm[x.operand.name] ELSE vm[x.name]

ExpectedClauses(x) ==
  LET spine == SpineOf(x, "^")
  IN [c \in DOMAIN spine |->
        LET lits == SpineOf(spine[c], "v")
        IN [l \in DOMAIN lits |-> ExpectedLiteral(lits[l], ExpectedMap(x))]]

\* C7: every generate() call maps the n names to 1..n in ascending order, emits
\* one clause per maximal non-'^' subtree of the '^' spine, left to right, with
\* the literals left to right as +ID / -ID, under the header 'p cnf n m' with
\* m the number of clause lines.
C7_DimacsEncoding ==
  \A k \in DOMAIN results :
    LET x == TreeOf(heap, cnf_ast)
        exp == ExpectedClauses(x)
    IN CnfShaped(x) =>
         /\ results[k].var_map = ExpectedMap(x)
         /\ results[k].clauses = exp
         /\ results[k].text.header = <<Cardinality(NamesOf(x)), Len(exp)>>
         /\ results[k].text.lines = [c \in DOMAIN exp |-> exp[c] \o <<0>>]
         /\ Len(results[k].text.lines) = results[k].text.header[2]

\* the same for the first generate() call made on an instance
C7_FirstCallEncoding ==
  \A k \in DOMAIN results :
    LET x == TreeOf(heap, cnf_ast)
        exp == ExpectedClauses(x)
    IN (CnfShaped(x) /\ results[k].call = 1) =>
         /\ results[k].var_map = ExpectedMap(x)
         /\ results[k].clauses = exp
         /\ results[k].text.header = <<Cardinality(NamesOf(x)), Len(exp)>>
         /\ results[k].text.lines = [c \in DOMAIN exp |-> exp[c] \o <<0>>]

\* C8: any two generate() calls for the same CNF tree, on one instance or on
\* two, return the same VariableMap, the same clause sequence and the same
\* text.
C8_EncodingDeterministic ==
  \A i, j \in DOMAIN results :
    /\ results[i].var_map = results[j].var_map
    /\ results[i].clauses = results[j].clauses
    /\ results[i].text = results[j].text

\* the same for first calls on different instances
C8_FreshInstancesAgree ==
  \A i, j \in DOMAIN results :
    (results[i].call = 1 /\ results[j].call = 1) => results[i] = results[j]

\* C10: a rewrite stage leaves every node that existed before the call with
\* the operator and the children it had.
StageStep ==
  \/ pc = "parsed" /\ pc' = "step1"
  \/ pc = "step1" /\ pc' = "step2"
  \/ pc = "step2" /\ pc' = "cnf"

C10_StagesPure ==
  [][StageStep => \A n \in DOMAIN heap : heap'[n] = heap[n]]_vars

\* the same for the first two stages only
C10_FirstTwoStagesPure ==
  [][(pc \in {"parsed", "step1"} /\ pc' \in {"step1", "step2"})
       => \A n \in DOMAIN heap : heap'[n] = heap[n]]_vars

\* a 'v' node with a '^' child, negated subformulas included or not
RECURSIVE AndChildOfOr(_, _)
AndChildOfOr(x, underNot) ==
  IF x.f = "var" THEN FALSE
  ELSE IF x.f = "not" THEN underNot /\ AndChildOfOr(x.operand, underNot)
  ELSE \/ AndChildOfOr(x.left, underNot)
       \/ AndChildOfOr(x.right, underNot)
       \/ /\ x.operator = "v"
          /\ \/ x.left.f = "bin" /\ x.left.operator = "^"
             \/ x.right.f = "bin" /\ x.right.operator = "^"

Returned == pc = "cnf"

\* C9 as claimed, its statement about the result: once distribute_or_over_and
\* has returned, no 'v' node of the tree has a '^' child.
C9_NoAndChildAnywhere == Returned => ~AndChildOfOr(TreeOf(heap, cnf_ast), TRUE)

\* C9 as amended: distribute_or_over_and returns on every tree of Variable,
\* negation, '^' and 'v' nodes, the calls on the nodes it builds included, and
\* then no 'v' node outside the operand of a negation has a '^' child.
C9_TerminatesDistributed ==
  /\ <>Returned
  /\ [](Returned => ~AndChildOfOr(TreeOf(heap, cnf_ast), FALSE))

\* a disjunction of two conjunctions was distributed, and the conjunction built
\* for it distributed again, into four clauses
C9_Witness ==
  /\ Returned
  /\ stack = <<>>
  /\ cnf_ast # ast
  /\ heap[ast].operator = "v"
  /\ Len(SpineOf(TreeOf(heap, cnf_ast), "^")) = 4

\* the call-by-call machine returns what the function returns
DistAgrees ==
  Returned =>
    LET p == parse(tokens)
        d == distribute_or_over_and(p.heap, p.node)
    IN heap = d.heap /\ cnf_ast = d.node

====
